---------------------------- MODULE Spec2Model ----------------------------
(***************************************************************************)
(* dirwatcher.py: a polling loop that scans the files of one directory for *)
(* a magic string, resuming each file after the last line it examined, and *)
(* logs matches, added files and removed files.                            *)
(*                                                                         *)
(* Strings are tuples of one-character strings, so that substring search   *)
(* and os.path.splitext are computed and not assumed.  A Python dict is a  *)
(* function whose DOMAIN is its key set.  The file system is the           *)
(* environment: it changes between the program's I/O calls (the listing    *)
(* and each open), which is why one polling cycle is several steps.        *)
(***************************************************************************)
EXTENDS Integers, Sequences, FiniteSets, Bags, TLC

\* ---------------------------------------------------------------- bounds
\* Total number of lines over all files of the directory.
MaxLines == 2
\* Largest polling interval (seconds) a run is configured with.
MaxInterval == 1

\* ------------------------------------------------------------- constants
\* time.sleep(5) of the FileNotFoundError handler.
BackoffSecs == 5

\* Python's None (no tuple of characters equals it).
None == <<"None">>

\* The names a file of the watch directory can have, and the sets of names
\* that occur in the directory during one run.
FileNames == { <<"a", ".", "l">>, <<"b", ".", "l">>, <<"c", ".", "t">> }
MixedNames == { <<"a", ".", "l">>, <<"c", ".", "t">> }
NameSets == { { <<"a", ".", "l">>, <<"b", ".", "l">> }, MixedNames }

\* The lines a file can hold: one without and one with the text "FO".
LineVals == { <<"O", "F", "\n">>, <<"x", "F", "O", "\n">> }

\* The command lines the program is started with (parsed_args).
Configs ==
    { [dir |-> d, magic |-> m, ext |-> e, int |-> i] :
        d \in {None, <<"w">>},
        m \in {None, <<"F", "O">>},
        e \in {None, <<>>, <<"l">>, <<".", "l">>},
        i \in 1..MaxInterval }

VARIABLES
    path, magic_string, extension, interval,   \* watch_directory's arguments
    names, dir_exists, present, content,       \* the file system
    curr_dir_dict, prev_dir_dict, exit_program,\* the module's globals
    watch_files, idx,                          \* the cycle's listing, position in it
    pc, timer,                                 \* control point, seconds of the sleep in progress
    log,                                       \* events logged by the iteration in progress
    prev_files, after_full, in_cycle, scanned, \* history of the current cycle
    last_full,                                 \* the last iteration was a complete cycle
    unchanged, rerun,                          \* history of directory changes
    exit_cause                                 \* why the loop was left

vars == << path, magic_string, extension, interval, names, dir_exists,
           present, content, curr_dir_dict, prev_dir_dict, exit_program,
           watch_files, idx, pc, timer, log, prev_files, after_full,
           in_cycle, scanned, last_full, unchanged, rerun, exit_cause >>

\* ---------------------------------------------------------------- helpers
Range(s) == { s[i] : i \in DOMAIN s }

\* d.get(k, default)
Get(d, k, default) == IF k \in DOMAIN d THEN d[k] ELSE default

\* Line 47 as "curr_dir_dict = {filename: index}": the other keys are lost.
DictSetOnly(d, k, v) == [x \in {k} |-> v]

\* d[k] = v
DictSet(d, k, v) == [x \in DOMAIN d \cup {k} |-> IF x = k THEN v ELSE d[x]]

\* del d[k] for every k of ks
DictDel(d, ks) == [x \in DOMAIN d \ ks |-> d[x]]

EmptyDict == [x \in {} |-> 0]

\* sub in s
Contains(sub, s) ==
    \E i \in 0..(Len(s) - Len(sub)) : SubSeq(s, i + 1, i + Len(sub)) = sub

\* s.rfind(c), 1-based, 0 when c is not in s
RFind(s, c) ==
    LET at == { i \in 1..Len(s) : s[i] = c }
    IN IF at = {} THEN 0 ELSE CHOOSE i \in at : \A j \in at : j <= i

\* os.path.join(path, file)
Join(p, file) == p \o <<"/">> \o file

\* os.path.splitext(p)[1]: from the last dot of the last component, unless
\* that component has only dots before it.
Splitext(p) ==
    LET sepIndex == RFind(p, "/")
        dotIndex == RFind(p, ".")
    IN IF dotIndex > sepIndex
          /\ \E i \in (sepIndex + 1)..(dotIndex - 1) : p[i] # "."
       THEN SubSeq(p, dotIndex, Len(p))
       ELSE <<>>

\* The sequences that list the set S once each, in any order (os.listdir
\* promises no order).
Orderings(S) ==
    { s \in [1..Cardinality(S) -> S] :
        \A i, j \in 1..Cardinality(S) : i # j => s[i] # s[j] }

TotalLines ==
    LET RECURSIVE Sum(_)
        Sum(S) == IF S = {} THEN 0
                  ELSE LET f == CHOOSE f \in S : TRUE
                       IN Len(content[f]) + Sum(S \ {f})
    IN Sum(FileNames)

\* ----------------------------------------------------------------- events
NoFile == <<>>
Event(kind, file, line) == [kind |-> kind, file |-> file, line |-> line]
MatchEvent(file, line) == Event("match", file, line)
AddedEvent(file) == Event("added", file, 0)
RemovedEvent(file) == Event("removed", file, 0)
\* A handler that logs with logger.debug.
DebugEvent(what) == Event("debug", NoFile, 0)
ErrorEvent(what) == Event(what, NoFile, 0)
ShutdownEvent == Event("shutdown", NoFile, 0)

ErrorKinds == { "FileNotFoundError", "MagicStringError", "ExtensionError",
                "NoDirectoryError", "IndexError", "KeyError" }

\* ------------------------------------------------------- search_for_magic
\* The loop of lines 46-53: contents is [""] + f.readlines(), index is the
\* Python index into it.  The result is the dict after the loop and the set
\* of line numbers logged (empty or one line).
RECURSIVE SearchLoop(_, _, _, _, _)
SearchLoop(dict, filename, contents, index, magic) ==
    IF index >= Len(contents)
    THEN [dict |-> dict, matches |-> {}]
    ELSE LET d1 == DictSet(dict, filename, index)
         IN IF Contains(magic, contents[index + 1])
            THEN [dict |-> d1, matches |-> {index}]
            ELSE SearchLoop(d1, filename, contents, index + 1, magic)

\* search_for_magic without the return of line 53: the loop runs to the end
\* of the file and the last matching line is the one reported.
RECURSIVE SearchLoopNoReturn(_, _, _, _, _, _)
SearchLoopNoReturn(dict, filename, contents, index, magic, last) ==
    IF index >= Len(contents)
    THEN [dict |-> dict, matches |-> last]
    ELSE SearchLoopNoReturn(DictSet(dict, filename, index), filename,
                            contents, index + 1, magic,
                            IF Contains(magic, contents[index + 1])
                            THEN {index} ELSE last)

search_for_magic_no_return(dict, filename, lines, start_line, magic) ==
    SearchLoopNoReturn(dict, filename, <<<<>>>> \o lines, start_line, magic, {})

\* search_for_magic without the return of line 53, every matching line from
\* the start line on being logged by the one scan.
RECURSIVE SearchLoopAll(_, _, _, _, _, _)
SearchLoopAll(dict, filename, contents, index, magic, found) ==
    IF index >= Len(contents)
    THEN [dict |-> dict, matches |-> found]
    ELSE SearchLoopAll(DictSet(dict, filename, index), filename,
                       contents, index + 1, magic,
                       IF Contains(magic, contents[index + 1])
                       THEN found \cup {index} ELSE found)

search_for_magic_all(dict, filename, lines, start_line, magic) ==
    SearchLoopAll(dict, filename, <<<<>>>> \o lines, start_line, magic, {})

\* search_for_magic with range(start_line, len(contents) - 1): the last line
\* of the file is not examined.
search_for_magic_short(dict, filename, lines, start_line, magic) ==
    SearchLoop(dict, filename,
               <<<<>>>> \o SubSeq(lines, 1, Len(lines) - 1), start_line, magic)

search_for_magic(dict, filename, lines, start_line, magic) ==
    SearchLoop(dict, filename, <<<<>>>> \o lines, start_line, magic)

\* Line 84 without its "+ 1": the scan starts on the resume point itself.
start_line_of_resume(dict, file) == Get(dict, file, 0)

\* Line 84 as "start_line = 1": every scan starts at the first line.
start_line_of_restart(dict, file) == 1

\* Line 84: the line a scan of file starts at.
start_line_of(dict, file) == Get(dict, file, 0) + 1

\* Line 83: whether filter_extension scans the file.
passes_filter(ext, file) == ext = None \/ Splitext(file) = ext

\* --------------------------------------- detect_removed / detect_added
\* detect_removed_files without the test of line 60: every file of the
\* previous dict is taken as removed.
removed_keys_all(prev_dict, files) == DOMAIN prev_dict

\* The keys detect_removed_files deletes and logs.
removed_keys(prev_dict, files) == { f \in DOMAIN prev_dict : f \notin files }

\* The keys detect_added_files logs.
added_keys(prev_dict, curr_dict) ==
    { f \in DOMAIN curr_dict : f \notin DOMAIN prev_dict }

\* ------------------------------------------------------------- alert_user
\* alert_user without the check of the extension (lines 116-117).
alert_user_no_ext(p, magic, ext) ==
    IF magic = None \/ magic = <<>> THEN "MagicStringError"
    ELSE IF p = None \/ p = <<>> THEN "NoDirectoryError"
    ELSE "ok"

\* What alert_user raises; extension[0] of an empty string is an IndexError.
alert_user(p, magic, ext) ==
    IF magic = None \/ magic = <<>> THEN "MagicStringError"
    ELSE IF ext # None /\ ext = <<>> THEN "IndexError"
    ELSE IF ext # None /\ ext[1] # "." THEN "ExtensionError"
    ELSE IF p = None \/ p = <<>> THEN "NoDirectoryError"
    ELSE "ok"

ConfigValid == alert_user(path, magic_string, extension) = "ok"

\* The handlers of lines 145-176 all breaking out of the loop.
after_handler_break(exc) == "done"

\* Lines 145-176: where an exception's handler leaves the loop: the
\* FileNotFoundError handler sleeps and goes on, the others break.
after_handler(exc) == IF exc = "FileNotFoundError" THEN "backoff" ELSE "done"

\* ------------------------------------------------------------------- Init
\* Without a filter the names play no role, and one set of names is run.
Init ==
    /\ \E c \in Configs :
          /\ path = c.dir
          /\ magic_string = c.magic
          /\ extension = c.ext
          /\ interval = c.int
    /\ names \in NameSets
    /\ extension = None => names = MixedNames
    /\ dir_exists \in BOOLEAN
    /\ present = {}
    /\ content = [f \in FileNames |-> <<>>]
    /\ curr_dir_dict = EmptyDict
    /\ prev_dir_dict = EmptyDict
    /\ exit_program = FALSE
    /\ watch_files = <<>>
    /\ idx = 1
    /\ pc = "loop"
    /\ timer = 0
    /\ log = EmptyBag
    /\ prev_files = {}
    /\ after_full = FALSE
    /\ last_full = FALSE
    /\ in_cycle = FALSE
    /\ scanned = {}
    /\ unchanged = FALSE
    /\ rerun = FALSE
    /\ exit_cause = "none"

config_vars == << path, magic_string, extension, interval >>
fs_vars == << names, dir_exists, present, content >>
dict_vars == << curr_dir_dict, prev_dir_dict >>
list_vars == << watch_files, idx >>
cycle_vars == << prev_files, after_full, in_cycle, scanned >>

\* ------------------------------------------------------------ file system
\* The program reads the file system when it lists the directory and when
\* it opens a file: the environment's steps are taken before those reads.
AtRead ==
    \/ pc = "loop" /\ ~exit_program /\ ConfigValid
    \/ pc = "scan" /\ idx <= Len(watch_files)

EnvFrame ==
    /\ unchanged' = FALSE
    /\ rerun' = FALSE
    /\ UNCHANGED << config_vars, names, dict_vars, exit_program, list_vars,
                    pc, timer, log, cycle_vars, last_full, exit_cause >>

CreateFile(f) ==
    /\ AtRead /\ dir_exists /\ f \notin present
    /\ present' = present \cup {f}
    /\ UNCHANGED << dir_exists, content >>
    /\ EnvFrame

RemoveFile(f) ==
    /\ AtRead /\ dir_exists /\ f \in present
    /\ present' = present \ {f}
    /\ content' = [content EXCEPT ![f] = <<>>]
    /\ UNCHANGED dir_exists
    /\ EnvFrame

AppendLine(f, l) ==
    /\ AtRead /\ dir_exists /\ f \in present
    /\ TotalLines < MaxLines
    /\ content' = [content EXCEPT ![f] = Append(@, l)]
    /\ UNCHANGED << dir_exists, present >>
    /\ EnvFrame

Truncate(f) ==
    /\ AtRead /\ dir_exists /\ f \in present /\ content[f] # <<>>
    /\ content' = [content EXCEPT ![f] = <<>>]
    /\ UNCHANGED << dir_exists, present >>
    /\ EnvFrame

\* The directory goes away, with what it holds.
DirVanish ==
    /\ AtRead /\ dir_exists
    /\ dir_exists' = FALSE
    /\ present' = {}
    /\ content' = [f \in FileNames |-> <<>>]
    /\ EnvFrame

\* The directory is there again; its files are created by the steps above.
DirAppear ==
    /\ AtRead /\ ~dir_exists
    /\ dir_exists' = TRUE
    /\ UNCHANGED << present, content >>
    /\ EnvFrame

\* --------------------------------------------------------- signal_handler
\* Lines 190-194.  The handlers replace Python's default SIGINT handler
\* (lines 204-205), so no KeyboardInterrupt is raised, and a sleep in
\* progress goes on after the handler returns.
signal_handler(flag) == TRUE

Signal ==
    /\ pc # "exit"
    /\ exit_program' = signal_handler(exit_program)
    /\ UNCHANGED << config_vars, fs_vars, dict_vars, list_vars, pc, timer,
                    log, cycle_vars, last_full, unchanged, rerun, exit_cause >>

\* -------------------------------------------------------- watch_directory
\* Line 128 as "while True".
loop_continues_always(flag) == TRUE

\* Line 128: whether the loop runs another iteration.
loop_continues(flag) == ~flag

\* Line 128: the flag is set, the loop is left.
LoopExit ==
    /\ pc = "loop" /\ ~loop_continues(exit_program)
    /\ pc' = "done"
    /\ exit_cause' = "cancelled"
    /\ UNCHANGED << config_vars, fs_vars, dict_vars, exit_program, list_vars,
                    timer, log, cycle_vars, last_full, unchanged, rerun >>

\* Lines 130, 155-176: alert_user raises, the handler logs and breaks.
ConfigError ==
    /\ pc = "loop" /\ loop_continues(exit_program)
    /\ ~ConfigValid
    /\ log' = SetToBag({ErrorEvent(alert_user(path, magic_string, extension))})
    /\ pc' = after_handler(alert_user(path, magic_string, extension))
    /\ exit_cause' = "error"
    /\ UNCHANGED << config_vars, fs_vars, dict_vars, exit_program, list_vars,
                    timer, cycle_vars, last_full, unchanged, rerun >>

\* Lines 131-133, 149-154: os.listdir raises FileNotFoundError.
ListFail ==
    /\ pc = "loop" /\ loop_continues(exit_program)
    /\ ConfigValid
    /\ ~dir_exists
    /\ log' = SetToBag({ErrorEvent("FileNotFoundError")})
    /\ pc' = after_handler("FileNotFoundError")
    /\ timer' = BackoffSecs
    /\ exit_cause' = IF pc' = "done" THEN "error" ELSE exit_cause
    /\ last_full' = FALSE
    /\ unchanged' = FALSE
    /\ UNCHANGED << config_vars, fs_vars, dict_vars, exit_program, list_vars,
                    cycle_vars, rerun >>

\* Lines 131-133: the listing of the directory's regular files.
List ==
    /\ pc = "loop" /\ loop_continues(exit_program)
    /\ ConfigValid
    /\ dir_exists
    /\ \E wf \in Orderings({ Join(path, f) : f \in present }) :
          watch_files' = wf
    /\ idx' = 1
    /\ pc' = "scan"
    /\ log' = EmptyBag
    /\ prev_files' = IF last_full THEN Range(watch_files) ELSE {}
    /\ after_full' = last_full
    /\ in_cycle' = TRUE
    /\ scanned' = {}
    /\ rerun' = (last_full /\ unchanged)
    /\ last_full' = FALSE
    /\ unchanged' = TRUE
    /\ UNCHANGED << config_vars, fs_vars, dict_vars, exit_program, timer,
                    exit_cause >>

\* open(filename) succeeds.
Readable(file) ==
    dir_exists /\ \E f \in present : Join(path, f) = file

\* f.readlines()
Lines(file) == content[CHOOSE f \in FileNames : Join(path, f) = file]

\* Lines 82-85, 40-53: one iteration of filter_extension on a file that
\* passes the filter and can be opened.
ScanFile ==
    /\ pc = "scan" /\ idx <= Len(watch_files)
    /\ LET file == watch_files[idx]
           r == search_for_magic(curr_dir_dict, file, Lines(file),
                                 start_line_of(curr_dir_dict, file),
                                 magic_string)
       IN /\ passes_filter(extension, file)
          /\ Readable(file)
          /\ curr_dir_dict' = r.dict
          /\ log' = log (+) SetToBag({ MatchEvent(file, n) : n \in r.matches })
          /\ scanned' = scanned \cup {file}
    /\ idx' = idx + 1
    /\ UNCHANGED << config_vars, fs_vars, prev_dir_dict, exit_program,
                    watch_files, pc, timer, prev_files, after_full, in_cycle,
                    last_full, unchanged, rerun, exit_cause >>

\* Lines 43, 149-154: open raises FileNotFoundError, which the handler
\* written for the missing directory catches.
ScanFail ==
    /\ pc = "scan" /\ idx <= Len(watch_files)
    /\ passes_filter(extension, watch_files[idx])
    /\ ~Readable(watch_files[idx])
    /\ log' = log (+) SetToBag({ErrorEvent("FileNotFoundError")})
    /\ pc' = after_handler("FileNotFoundError")
    /\ timer' = BackoffSecs
    /\ exit_cause' = IF pc' = "done" THEN "error" ELSE exit_cause
    /\ unchanged' = FALSE
    /\ rerun' = FALSE
    /\ UNCHANGED << config_vars, fs_vars, dict_vars, exit_program, list_vars,
                    cycle_vars, last_full >>

\* Line 83: the file does not pass the filter.
SkipFile ==
    /\ pc = "scan" /\ idx <= Len(watch_files)
    /\ ~passes_filter(extension, watch_files[idx])
    /\ idx' = idx + 1
    /\ UNCHANGED << config_vars, fs_vars, dict_vars, exit_program,
                    watch_files, pc, timer, log, cycle_vars, last_full,
                    unchanged, rerun, exit_cause >>

\* Lines 136-144: detect_removed_files, detect_added_files, the copy of the
\* dict, and the start of the sleep.  del raises KeyError when a key of the
\* previous dict is not in the current one (lines 171-176 then break).
Diff ==
    /\ pc = "scan" /\ idx > Len(watch_files)
    /\ LET gone == removed_keys(prev_dir_dict, Range(watch_files))
           curr1 == DictDel(curr_dir_dict, gone)
           added == added_keys(prev_dir_dict, curr1)
       IN IF gone \subseteq DOMAIN curr_dir_dict
          THEN /\ curr_dir_dict' = curr1
               /\ log' = log (+) SetToBag({ RemovedEvent(f) : f \in gone })
                             (+) SetToBag({ AddedEvent(f) : f \in added })
               /\ prev_dir_dict' = curr1
               /\ pc' = "sleep"
               /\ timer' = interval
               /\ last_full' = TRUE
               /\ UNCHANGED exit_cause
          ELSE /\ \E some \in SUBSET (gone \cap DOMAIN curr_dir_dict) :
                     /\ curr_dir_dict' = DictDel(curr_dir_dict, some)
                     /\ log' = log (+) SetToBag({ RemovedEvent(f) : f \in some })
                                   (+) SetToBag({ErrorEvent("KeyError")})
               /\ pc' = after_handler("KeyError")
               /\ exit_cause' = "error"
               /\ UNCHANGED << prev_dir_dict, timer, last_full >>
    /\ UNCHANGED << config_vars, fs_vars, exit_program, list_vars,
                    cycle_vars, unchanged, rerun >>

\* Line 144: time.sleep(interval) returns, back to line 128.
SleepReturn ==
    /\ pc = "sleep"
    /\ pc' = "loop"
    /\ timer' = 0
    /\ log' = EmptyBag
    /\ prev_files' = {}
    /\ after_full' = FALSE
    /\ in_cycle' = FALSE
    /\ scanned' = {}
    /\ rerun' = FALSE
    /\ UNCHANGED << config_vars, fs_vars, dict_vars, exit_program, list_vars,
                    last_full, unchanged, exit_cause >>

\* Line 154: time.sleep(5) returns, back to line 128.
BackoffReturn ==
    /\ pc = "backoff"
    /\ pc' = "loop"
    /\ timer' = 0
    /\ log' = EmptyBag
    /\ prev_files' = {}
    /\ after_full' = FALSE
    /\ in_cycle' = FALSE
    /\ scanned' = {}
    /\ rerun' = FALSE
    /\ UNCHANGED << config_vars, fs_vars, dict_vars, exit_program, list_vars,
                    last_full, unchanged, exit_cause >>

\* Lines 219-225 of main: the closing message, after the loop.
MainExit ==
    /\ pc = "done"
    /\ pc' = "exit"
    /\ log' = log (+) SetToBag({ShutdownEvent})
    /\ UNCHANGED << config_vars, fs_vars, dict_vars, exit_program, list_vars,
                    timer, cycle_vars, last_full, unchanged, rerun, exit_cause >>

Env ==
    \/ \E f \in names : CreateFile(f)
    \/ \E f \in names : RemoveFile(f)
    \/ \E f \in names, l \in LineVals : AppendLine(f, l)
    \/ \E f \in names : Truncate(f)
    \/ DirVanish
    \/ DirAppear

Program ==
    \/ LoopExit
    \/ ConfigError
    \/ ListFail
    \/ List
    \/ ScanFile
    \/ ScanFail
    \/ SkipFile
    \/ Diff
    \/ SleepReturn
    \/ BackoffReturn
    \/ MainExit

Next == Env \/ Signal \/ Program

Spec == Init /\ [][Next]_vars

\* The program keeps running and every sleep ends.
LiveSpec == Spec /\ WF_vars(Program)

\* ============================================================ properties
AllPaths == { Join(path, f) : f \in names }

\* The lines of a file, from line s on, that contain the magic string.
Hits(lines, s, magic) == { n \in s..Len(lines) : Contains(magic, lines[n]) }

MinOf(S) == CHOOSE n \in S : \A m \in S : n <= m

MatchLines(file) == { n \in 1..MaxLines : BagIn(MatchEvent(file, n), log) }

\* C1 as stated: whenever the magic string is on line N of a file, every
\* scan that starts at or before N reports exactly line N, and every scan
\* that starts after N reports no match.  It fails on a file with the string
\* on two lines.
C1_AsStated ==
    ConfigValid =>
    \A f \in present : \A N \in 1..Len(content[f]) :
       Contains(magic_string, content[f][N]) =>
          /\ \A s \in 1..N :
                search_for_magic(curr_dir_dict, Join(path, f), content[f], s,
                                 magic_string).matches = {N}
          /\ \A s \in (N + 1)..(Len(content[f]) + 1) :
                search_for_magic(curr_dir_dict, Join(path, f), content[f], s,
                                 magic_string).matches = {}

\* C1, amended: a scan of a file from line s reports exactly the first line
\* N >= s that contains the magic string and leaves N as the resume point;
\* it reports nothing when no line from s on contains it.  So a scan that
\* starts after N never reports N or a line before it.
C1_FirstMatch ==
    ConfigValid =>
    \A f \in present : \A s \in 1..(Len(content[f]) + 1) :
       LET file == Join(path, f)
           r == search_for_magic(curr_dir_dict, file, content[f], s,
                                 magic_string)
           hits == Hits(content[f], s, magic_string)
       IN IF hits = {}
          THEN r.matches = {}
          ELSE r.matches = {MinOf(hits)} /\ r.dict[file] = MinOf(hits)

\* A file with the magic string on lines 1 and 2 whose scan, started after
\* line 1, has reported line 2.
C1_Witness ==
    \E f \in present :
       /\ Hits(content[f], 1, magic_string) = {1, 2}
       /\ Join(path, f) \in scanned
       /\ MatchLines(Join(path, f)) = {2}

\* C2: for a file with the magic string on no line, the scan from the first
\* line (the scan of a file without an entry) logs no match and leaves the
\* resume point, curr_dir_dict.get(file, 0), equal to the file's number of
\* lines, 0 included.
C2_NoMatchResume ==
    ConfigValid =>
    \A f \in present :
       Hits(content[f], 1, magic_string) = {} =>
          LET file == Join(path, f)
              fresh == DictDel(curr_dir_dict, {file})
              r == search_for_magic(fresh, file, content[f],
                                    start_line_of(fresh, file), magic_string)
          IN r.matches = {} /\ Get(r.dict, file, 0) = Len(content[f])

\* A file of two lines without the magic string, scanned for the first time
\* in this cycle, with no match logged and the resume point on line 2.
C2_Witness ==
    \E f \in present :
       /\ Len(content[f]) = 2
       /\ Hits(content[f], 1, magic_string) = {}
       /\ Join(path, f) \in scanned
       /\ Join(path, f) \notin DOMAIN prev_dir_dict
       /\ MatchLines(Join(path, f)) = {}
       /\ Get(curr_dir_dict, Join(path, f), 0) = 2

\* The match lines a step adds to the log for a file.
NewMatchLines(file) ==
    { n \in 1..MaxLines :
        CopiesIn(MatchEvent(file, n), log') > CopiesIn(MatchEvent(file, n), log) }

\* C3: no line of a tracked file is reported twice.  Every step that logs a
\* match for line n of a file finds the file's resume point below n and
\* leaves it at n, and no step lowers the resume point of a file that keeps
\* its entry: so every later match of the file is on a line after n.
C3_NoRepeat ==
    [][ \A file \in AllPaths :
          /\ \A n \in NewMatchLines(file) :
                /\ n > Get(curr_dir_dict, file, 0)
                /\ file \in DOMAIN curr_dir_dict'
                /\ curr_dir_dict'[file] = n
          /\ (file \in DOMAIN curr_dir_dict /\ file \in DOMAIN curr_dir_dict')
                => curr_dir_dict'[file] >= curr_dir_dict[file]
      ]_vars

\* A file whose line 1 holds the magic string and was the resume point of
\* the previous cycle, scanned again in this cycle up to line 2 with no
\* match logged.
C3_Witness ==
    \E f \in present :
       /\ Len(content[f]) = 2
       /\ Hits(content[f], 1, magic_string) = {1}
       /\ Join(path, f) \in scanned
       /\ Get(prev_dir_dict, Join(path, f), 0) = 1
       /\ Get(curr_dir_dict, Join(path, f), 0) = 2
       /\ MatchLines(Join(path, f)) = {}

\* The number of times an event is in the log of the current iteration.
Logged(e) == CopiesIn(e, log)

\* A cycle has run to the copy of the dict (line 143) and sleeps.
CycleDone == pc = "sleep"

\* C4 as stated: a file listed in one complete cycle and absent from the
\* listing of the next
\* has no entry in curr_dir_dict at the end of the cycle that observes the
\* removal, and that cycle logs exactly one removal event for it.
C4_RemovalLogged ==
    CycleDone =>
    \A file \in prev_files :
       (passes_filter(extension, file) /\ file \notin Range(watch_files)) =>
          /\ file \notin DOMAIN curr_dir_dict
          /\ Logged(RemovedEvent(file)) = 1

\* C5 as stated: a file that passes the filter and is in a cycle's listing
\* but was not in the listing of the complete cycle before it has resume
\* point 0 before its scan,
\* and the cycle logs exactly one addition event for it.
C5_AdditionLogged ==
    \A file \in Range(watch_files) :
       (after_full /\ in_cycle /\ passes_filter(extension, file)
          /\ file \notin prev_files) =>
          /\ (pc = "scan" /\ file \notin scanned)
                => Get(curr_dir_dict, file, 0) = 0
          /\ CycleDone => Logged(AddedEvent(file)) = 1

\* C6 as stated: a complete cycle that follows a complete cycle, with no
\* change of the directory or of its files since the listing of the first,
\* logs no addition event and no removal event.
C6_Idempotent ==
    (CycleDone /\ rerun /\ unchanged) =>
    \A file \in AllPaths \cup DOMAIN prev_dir_dict \cup DOMAIN curr_dir_dict :
       Logged(AddedEvent(file)) = 0 /\ Logged(RemovedEvent(file)) = 0

\* The events of the log that name a file.
EventsOf(file) == { e \in BagToSet(log) : e.file = file }

\* C7 as stated: with an extension filter, a file with another extension is
\* never scanned, has no entry in either dict and is named by no event; and
\* when an iteration that listed the directory ends, every listed file with
\* the filter's extension that can still be opened has been scanned in it.
C7_Filter ==
    (extension # None /\ ConfigValid) =>
    /\ \A file \in AllPaths :
          Splitext(file) # extension =>
             /\ file \notin scanned
             /\ file \notin DOMAIN curr_dir_dict
             /\ file \notin DOMAIN prev_dir_dict
             /\ EventsOf(file) = {}
    /\ \A file \in Range(watch_files) :
          (in_cycle /\ pc \in {"sleep", "backoff"}
             /\ Splitext(file) = extension /\ Readable(file))
          => file \in scanned

\* The configurations C8 calls invalid: no magic string, no directory, or an
\* extension filter that does not begin with a dot.
InvalidConfiguration ==
    \/ magic_string = None \/ magic_string = <<>>
    \/ path = None \/ path = <<>>
    \/ extension # None /\ (extension = <<>> \/ extension[1] # ".")

ErrorsLogged == { e \in BagToSet(log) : e.kind \in ErrorKinds }

\* The loop has listed nothing, scanned nothing, changed neither dict and
\* slept in no backoff.
NeverRan ==
    /\ pc \in {"loop", "done", "exit"}
    /\ watch_files = <<>> /\ ~in_cycle /\ scanned = {}
    /\ curr_dir_dict = EmptyDict /\ prev_dir_dict = EmptyDict
    /\ timer = 0

\* C8 as stated: with an invalid configuration the loop never lists, scans,
\* changes the watch state or backs off, and it has logged an error when it
\* has ended.
C8_AsStated ==
    InvalidConfiguration =>
       /\ NeverRan
       /\ pc \in {"done", "exit"} => ErrorsLogged # {}

\* C8, amended: with an invalid configuration the loop never lists, scans,
\* changes the watch state or backs off; it ends in its first iteration
\* with exactly one error logged, unless the cancellation flag was already
\* set at its first check, and then it ends with no error logged.
C8_InvalidConfig ==
    InvalidConfiguration =>
       /\ NeverRan
       /\ pc \in {"done", "exit"} =>
             IF exit_cause = "cancelled"
             THEN exit_program /\ ErrorsLogged = {}
             ELSE /\ exit_cause = "error"
                  /\ Cardinality(ErrorsLogged) = 1
                  /\ \A e \in ErrorsLogged : Logged(e) = 1

\* The loop has ended on the error of an extension without its dot.
C8_Witness ==
    /\ InvalidConfiguration
    /\ extension = <<"l">>
    /\ pc = "done" /\ exit_cause = "error"
    /\ Logged(ErrorEvent("ExtensionError")) = 1

\* C9: with a valid configuration and the flag unset, an iteration that
\* finds no directory logs the error, leaves both dicts alone and sleeps
\* the fixed backoff; the backoff is only ever left for the loop's next
\* check; and an iteration that finds the directory lists its files and
\* scans them from the first, whatever came before.
C9_Backoff ==
    [][ /\ (pc = "loop" /\ pc' # "loop" /\ ~exit_program
              /\ ~InvalidConfiguration /\ ~dir_exists) =>
             /\ pc' = "backoff" /\ timer' = BackoffSecs
             /\ CopiesIn(ErrorEvent("FileNotFoundError"), log') = 1
             /\ UNCHANGED dict_vars
        /\ (pc = "backoff" /\ pc' # "backoff") => pc' = "loop"
        /\ (pc = "loop" /\ pc' # "loop" /\ ~exit_program
              /\ ~InvalidConfiguration /\ dir_exists) =>
             /\ pc' = "scan" /\ idx' = 1
             /\ Range(watch_files') = { Join(path, f) : f \in present }
             /\ log' = EmptyBag
      ]_vars

\* The backoff of a listing that found no directory, with files tracked
\* from the cycles before the directory went away.
C9_Witness ==
    /\ pc = "backoff" /\ ~in_cycle /\ ~dir_exists
    /\ timer = BackoffSecs
    /\ DOMAIN curr_dir_dict # {}

\* C10: once set, exit_program stays set; the step that sets it changes
\* nothing else, so a second signal changes nothing at all; no listing is
\* started while it is set, from the sleep or from the backoff; and the loop
\* is eventually left.
C10_Cancel ==
    /\ [][ /\ exit_program => exit_program'
           /\ exit_program' # exit_program =>
                 UNCHANGED << config_vars, fs_vars, dict_vars, list_vars, pc,
                              timer, log >>
           /\ (exit_program /\ pc # "scan") => pc' # "scan"
           /\ (exit_program /\ pc = "loop") => pc' \in {"loop", "done"}
         ]_vars
    /\ exit_program ~> (pc \in {"done", "exit"})

\* The loop left on the flag, after cycles that tracked files.
C10_Witness ==
    /\ exit_program /\ pc = "done" /\ exit_cause = "cancelled"
    /\ DOMAIN curr_dir_dict # {}

\* C11 as stated: a signal delivered while the loop sleeps between two
\* cycles ends the sleep: no part of the interval remains to be waited when
\* the handler has returned.
C11_SleepInterrupted ==
    [][ (pc = "sleep" /\ ~exit_program /\ exit_program') => timer' = 0 ]_vars

\* C12 as stated: when the file the scan has come to passes the filter and
\* cannot be opened, the program's next step stays in the cycle and goes on
\* to the next file of the listing, with no backoff and no end of the loop.
C12_PerFileFailure ==
    [][ ( /\ pc = "scan" /\ idx <= Len(watch_files)
          /\ passes_filter(extension, watch_files[idx])
          /\ ~Readable(watch_files[idx])
          /\ (pc' # pc \/ idx' # idx) )
        => (pc' = "scan" /\ idx' = idx + 1 /\ timer' = timer) ]_vars

\* C13: no exit of the loop is silent.  A step that leaves the loop either
\* finds the flag set at the loop's check or logs an error; the only step
\* the program takes after the loop is the one that logs the shutdown
\* message, and that message is in no log before it.
C13_NoSilentExit ==
    [][ /\ (pc # "done" /\ pc' = "done") =>
             \/ pc = "loop" /\ exit_program /\ log' = log
             \/ \E e \in BagToSet(log') :
                   /\ e.kind \in ErrorKinds
                   /\ CopiesIn(e, log') > CopiesIn(e, log)
        /\ (pc = "done" /\ pc' # "done") =>
             /\ pc' = "exit"
             /\ CopiesIn(ShutdownEvent, log') = 1
        /\ pc # "done" => CopiesIn(ShutdownEvent, log) = 0
        /\ pc' = "exit" => pc \in {"done", "exit"}
      ]_vars

\* The program has ended on the unexpected error of an empty extension,
\* with the error and the shutdown message logged.
C13_Witness ==
    /\ pc = "exit" /\ exit_cause = "error"
    /\ extension = <<>>
    /\ Logged(ErrorEvent("IndexError")) = 1
    /\ Logged(ShutdownEvent) = 1

\* An iteration that listed the directory has come to its end: the sleep
\* of a complete cycle or the backoff of a cycle cut short.
CycleBoundary == in_cycle /\ pc \in {"sleep", "backoff"}

\* C14 as stated: an entry is only ever created for a path of the current
\* listing, and at the end of every cycle, complete or cut short, every
\* path with an entry in curr_dir_dict is in that cycle's listing.
C14_TrackedAreListed ==
    [][ /\ \A file \in DOMAIN curr_dir_dict' \ DOMAIN curr_dir_dict :
              file \in Range(watch_files)
        /\ CycleBoundary' =>
              DOMAIN curr_dir_dict' \subseteq Range(watch_files')
      ]_vars

\* C15: while a path keeps its entry, no step lowers its resume point; the
\* scan of a file that has no line after the resume point (a file cut short
\* included) logs no match for it and leaves the entry as it is; and a new
\* entry is made by a scan that started from line 1, of a path that had no
\* entry.
C15_ResumeMonotone ==
    [][ \A file \in AllPaths :
          /\ (file \in DOMAIN curr_dir_dict /\ file \in DOMAIN curr_dir_dict')
                => curr_dir_dict'[file] >= curr_dir_dict[file]
          /\ ( /\ pc = "scan" /\ idx <= Len(watch_files) /\ idx' = idx + 1
               /\ watch_files[idx] = file
               /\ file \in DOMAIN curr_dir_dict
               /\ Len(Lines(file)) <= curr_dir_dict[file] )
             => /\ NewMatchLines(file) = {}
                /\ curr_dir_dict' = curr_dir_dict
          /\ file \in DOMAIN curr_dir_dict' \ DOMAIN curr_dir_dict
                => /\ pc = "scan" /\ watch_files[idx] = file
                   /\ start_line_of(curr_dir_dict, file) = 1
                   /\ curr_dir_dict'[file] >= 1
      ]_vars

\* A complete cycle has scanned a file that was emptied after its two lines
\* had been read: the resume point is still 2.
C15_Witness ==
    \E f \in present :
       /\ pc = "sleep" /\ unchanged
       /\ content[f] = <<>>
       /\ Join(path, f) \in scanned
       /\ Get(curr_dir_dict, Join(path, f), 0) = 2

\* C16 as stated: at the end of every complete cycle, every path of the
\* cycle's listing that passes the extension filter has an entry in
\* curr_dir_dict.
C16_ListedAreTracked ==
    CycleDone =>
    \A file \in Range(watch_files) :
       passes_filter(extension, file) => file \in DOMAIN curr_dir_dict

\* C17 as stated: every addition event a step logs names a path of the
\* current listing that is not a key of the previous snapshot.
C17_AddedAreListed ==
    [][ \A file \in AllPaths :
          CopiesIn(AddedEvent(file), log') > CopiesIn(AddedEvent(file), log)
          => /\ file \in Range(watch_files)
             /\ file \notin DOMAIN prev_dir_dict
      ]_vars

\* C18: the log of one cycle holds at most one match event per file.  The
\* scan of a file logs the first matching line after the file's resume
\* point, and nothing when there is none, and stores the line it logs as
\* the resume point, so that the lines logged for a file go up from cycle to
\* cycle; and a complete cycle has scanned every listed file that passes
\* the filter.  An unchanged file with k matching lines left is therefore
\* reported in full by its next k complete cycles, one line per cycle.
C18_OnePerCycle ==
    [][ /\ \A file \in AllPaths :
              /\ Cardinality(MatchLines(file)) <= 1
              /\ \A n \in MatchLines(file) : Logged(MatchEvent(file, n)) = 1
        /\ (pc = "scan" /\ idx <= Len(watch_files) /\ idx' = idx + 1
              /\ passes_filter(extension, watch_files[idx])) =>
             LET file == watch_files[idx]
                 resume == Get(curr_dir_dict, file, 0)
                 hits == Hits(Lines(file), resume + 1, magic_string)
             IN IF hits = {}
                THEN NewMatchLines(file) = {}
                ELSE /\ NewMatchLines(file) = {MinOf(hits)}
                     /\ MinOf(hits) > resume
                     /\ curr_dir_dict'[file] = MinOf(hits)
        /\ CycleDone =>
             \A file \in Range(watch_files) :
                passes_filter(extension, file) => file \in scanned
      ]_vars

\* The second of two complete cycles on an unchanged file whose lines 1 and
\* 2 hold the magic string: it has logged line 2, and line 2 only.
C18_Witness ==
    \E f \in present :
       /\ pc = "sleep" /\ rerun /\ unchanged
       /\ Hits(content[f], 1, magic_string) = {1, 2}
       /\ MatchLines(Join(path, f)) = {2}
       /\ curr_dir_dict[Join(path, f)] = 2

\* C19: in every reachable state, the start of the removal pass included,
\* every key of prev_dir_dict is a key of curr_dir_dict, and no KeyError
\* has been logged or has ended the loop.
C19_PrevKeysTracked ==
    /\ DOMAIN prev_dir_dict \subseteq DOMAIN curr_dir_dict
    /\ Logged(ErrorEvent("KeyError")) = 0
    /\ (pc = "scan" /\ idx > Len(watch_files)) =>
          removed_keys(prev_dir_dict, Range(watch_files))
             \subseteq DOMAIN curr_dir_dict

\* The start of a removal pass that has a file to remove, in a cycle that
\* follows a cycle cut short, with the signal already delivered.
C19_Witness ==
    /\ pc = "scan" /\ idx > Len(watch_files)
    /\ ~after_full /\ exit_program
    /\ removed_keys(prev_dir_dict, Range(watch_files)) # {}
    /\ DOMAIN curr_dir_dict # DOMAIN prev_dir_dict

\* The events of a log that are matches, additions or removals.
FileEvents(l) == { e \in BagToSet(l) : e.kind \in {"match", "added", "removed"} }

\* C20: the iteration whose listing finds no directory changes neither
\* dict and logs no match, addition or removal.  And in every complete
\* cycle, so in the first one after the directory is back, a file that is
\* a key of the previous snapshot and is listed again is logged neither as
\* removed nor as added, keeps its entry and has a resume point that is
\* not below the one of the snapshot.
C20_ListFailKeepsState ==
    [][ /\ (pc = "loop" /\ pc' = "backoff") =>
             /\ ~dir_exists
             /\ UNCHANGED dict_vars
             /\ FileEvents(log') = {}
        /\ (pc = "backoff" /\ pc' = "loop") => UNCHANGED dict_vars
        /\ (pc = "scan" /\ pc' = "sleep") =>
             \A file \in DOMAIN prev_dir_dict :
                file \in Range(watch_files) =>
                   /\ CopiesIn(RemovedEvent(file), log') = 0
                   /\ CopiesIn(AddedEvent(file), log') = 0
                   /\ file \in DOMAIN curr_dir_dict'
                   /\ curr_dir_dict'[file] >= prev_dir_dict[file]
                   /\ file \in DOMAIN prev_dir_dict'
      ]_vars

\* The backoff of a listing that found no directory, with a file tracked up
\* to its line 2 in both dicts.
C20_Witness ==
    /\ pc = "backoff" /\ ~in_cycle /\ ~dir_exists
    /\ \E file \in DOMAIN prev_dir_dict :
          prev_dir_dict[file] = 2 /\ Get(curr_dir_dict, file, 0) = 2

=============================================================================
